---- MODULE Spec2Model ----
(***************************************************************************)
(* Model of src/style.rs: the Modifier bit-set, the Style record and the   *)
(* patch composition of styles.                                            *)
(*                                                                         *)
(* A Modifier is modelled by its raw `bits: u16`, a natural number in      *)
(* 0..65535.  A Color is a string naming the enum variant.  An             *)
(* Option<Color> is a sequence: <<>> for None and <<c>> for Some(c).       *)
(***************************************************************************)
EXTENDS Integers, Sequences, FiniteSets, TLC

VARIABLES
    chain,   \* the Styles applied so far to the cell, in order
    cell,    \* the Style obtained by patching them one after the other
    style,   \* a Style under construction by the builder methods
    self,    \* the bits of the Modifier a Modifier method is called on
    ret      \* the last Modifier method called, with its argument and result

vars == <<chain, cell, style, self, ret>>

----------------------------------------------------------------------------
(* Bounds of the model *)

\* longest chain of styles applied to one cell
MaxChain == 3

\* raw bit patterns 0..MaxRaw are all explored as Modifier values
MaxRaw == 1023

----------------------------------------------------------------------------
(* u16 arithmetic *)

\* width of Modifier::bits
U16Bits == 16

U16Max == 2^U16Bits - 1

RECURSIVE BitAnd(_, _)
\* a & b
BitAnd(a, b) ==
    IF a = 0 \/ b = 0 THEN 0
    ELSE (a % 2) * (b % 2) + 2 * BitAnd(a \div 2, b \div 2)

\* a | b
BitOr(a, b) == a + b - BitAnd(a, b)

\* !a on u16
BitNot(a) == U16Max - a

----------------------------------------------------------------------------
(* Modifier *)

BOLD        == 1
DIM         == 2
ITALIC      == 4
UNDERLINED  == 8
SLOW_BLINK  == 16
RAPID_BLINK == 32
REVERSED    == 64
HIDDEN      == 128
CROSSED_OUT == 256

\* Modifier::empty(), also the Modifier::EMPTY that contains() compares with
empty == 0

\* Modifier::all()
all == 511

\* Option<Modifier>
NoModifier == <<>>
SomeModifier(b) == <<b>>

from_bits(b) ==
    IF BitAnd(b, BitNot(all)) = 0 THEN SomeModifier(b) ELSE NoModifier

\* from_bits_truncate keeping the bits that correspond to no flag
from_bits_truncate_no_mask(b) == b

from_bits_truncate(b) == BitAnd(b, all)

from_bits_unchecked(b) == b

\* contains without the test on Modifier::EMPTY
contains_no_empty_check(m, other) == BitAnd(m, other) = other

contains(m, other) == other # empty /\ BitAnd(m, other) = other

\* self.bits |= other.bits
insert(m, other) == BitOr(m, other)

\* self.bits &= !other.bits
remove(m, other) == BitAnd(m, BitNot(other))

\* the flags in declaration order, as fmt() tests them, with their names
Flags ==
    << BOLD, DIM, ITALIC, UNDERLINED, SLOW_BLINK, RAPID_BLINK, REVERSED,
       HIDDEN, CROSSED_OUT >>

FlagNames ==
    << "BOLD", "DIM", "ITALIC", "UNDERLINED", "SLOW_BLINK", "RAPID_BLINK",
       "REVERSED", "HIDDEN", "CROSSED_OUT" >>

HexDigits ==
    << "0", "1", "2", "3", "4", "5", "6", "7",
       "8", "9", "a", "b", "c", "d", "e", "f" >>

RECURSIVE LowerHex(_)
\* fmt::LowerHex of an unsigned value: no prefix, no leading zero
LowerHex(n) ==
    IF n < 16 THEN HexDigits[n + 1]
    ELSE LowerHex(n \div 16) \o HexDigits[(n % 16) + 1]

\* f.write_str(piece), preceded by the separator unless it is the first
\* piece; w is the pair of `first` and the text written so far
WritePiece(w, piece) ==
    [first |-> FALSE,
     out |-> w.out \o (IF w.first THEN "" ELSE " | ") \o piece]

RECURSIVE WriteFlags(_, _, _)
\* the nine `if Modifier::FLAG.contains(*self)` blocks from the i-th on
WriteFlags(m, i, w) ==
    IF i > Len(Flags) THEN w
    ELSE WriteFlags(m, i + 1,
                    IF contains(Flags[i], m)
                    THEN WritePiece(w, FlagNames[i])
                    ELSE w)

\* <Modifier as fmt::Debug>::fmt: the text written to the formatter
fmt(m) ==
    LET w1 == WriteFlags(m, 1, [first |-> TRUE, out |-> ""])
        extra_bits == BitAnd(m, BitNot(all))
        w2 == IF extra_bits # 0
              THEN WritePiece(w1, "0x" \o LowerHex(extra_bits))
              ELSE w1
    IN  IF w2.first THEN w2.out \o "(empty)" ELSE w2.out

----------------------------------------------------------------------------
(* Style *)

None == <<>>
Some(c) == <<c>>

\* Option::or
or(opt, optb) == IF opt # None THEN opt ELSE optb

Default ==
    [fg |-> None, bg |-> None, add_modifier |-> empty, sub_modifier |-> empty]

reset ==
    [fg |-> Some("Reset"), bg |-> Some("Reset"),
     add_modifier |-> empty, sub_modifier |-> all]

fg(s, color) == [s EXCEPT !.fg = Some(color)]

bg(s, color) == [s EXCEPT !.bg = Some(color)]

\* add_modifier without self.sub_modifier.remove(modifier)
add_modifier_no_remove(s, modifier) ==
    [s EXCEPT !.add_modifier = insert(s.add_modifier, modifier)]

add_modifier(s, modifier) ==
    [s EXCEPT !.sub_modifier = remove(s.sub_modifier, modifier),
              !.add_modifier = insert(s.add_modifier, modifier)]

remove_modifier(s, modifier) ==
    [s EXCEPT !.add_modifier = remove(s.add_modifier, modifier),
              !.sub_modifier = insert(s.sub_modifier, modifier)]

\* patch with the colors of `other` copied even when absent
patch_overwrite_fg(s, other) ==
    [fg |-> other.fg,
     bg |-> other.bg,
     add_modifier |->
        insert(remove(s.add_modifier, other.sub_modifier), other.add_modifier),
     sub_modifier |->
        insert(remove(s.sub_modifier, other.add_modifier), other.sub_modifier)]

\* patch without self.sub_modifier.insert(other.sub_modifier)
patch_no_sub_insert(s, other) ==
    [fg |-> or(other.fg, s.fg),
     bg |-> or(other.bg, s.bg),
     add_modifier |->
        insert(remove(s.add_modifier, other.sub_modifier), other.add_modifier),
     sub_modifier |-> remove(s.sub_modifier, other.add_modifier)]

\* patch without self.add_modifier.remove(other.sub_modifier)
patch_no_add_remove(s, other) ==
    [fg |-> or(other.fg, s.fg),
     bg |-> or(other.bg, s.bg),
     add_modifier |-> insert(s.add_modifier, other.add_modifier),
     sub_modifier |->
        insert(remove(s.sub_modifier, other.add_modifier), other.sub_modifier)]

\* patch without self.sub_modifier.remove(other.add_modifier)
patch_no_sub_remove(s, other) ==
    [fg |-> or(other.fg, s.fg),
     bg |-> or(other.bg, s.bg),
     add_modifier |->
        insert(remove(s.add_modifier, other.sub_modifier), other.add_modifier),
     sub_modifier |-> insert(s.sub_modifier, other.sub_modifier)]

\* patch with each insert done before the matching remove
patch_insert_first(s, other) ==
    [fg |-> or(other.fg, s.fg),
     bg |-> or(other.bg, s.bg),
     add_modifier |->
        remove(insert(s.add_modifier, other.add_modifier), other.sub_modifier),
     sub_modifier |->
        remove(insert(s.sub_modifier, other.sub_modifier), other.add_modifier)]

patch(s, other) ==
    [fg |-> or(other.fg, s.fg),
     bg |-> or(other.bg, s.bg),
     add_modifier |->
        insert(remove(s.add_modifier, other.sub_modifier), other.add_modifier),
     sub_modifier |->
        insert(remove(s.sub_modifier, other.add_modifier), other.sub_modifier)]

\* Style { fg, bg, add_modifier, sub_modifier }: the fields are public
StyleLiteral(f, b, a, s) ==
    [fg |-> f, bg |-> b, add_modifier |-> a, sub_modifier |-> s]

----------------------------------------------------------------------------
(* The styles applied to a cell *)

\* the styles of tests::styles()
TestStyles ==
    { Default,
      fg(Default, "Yellow"),
      bg(Default, "Yellow"),
      add_modifier(Default, BOLD),
      remove_modifier(Default, BOLD),
      add_modifier(Default, ITALIC),
      remove_modifier(Default, ITALIC),
      add_modifier(Default, BitOr(ITALIC, BOLD)),
      remove_modifier(Default, BitOr(ITALIC, BOLD)) }

\* the styles of the two examples in the documentation of Style
DocStyles ==
    { add_modifier(fg(Default, "Blue"), BitOr(BOLD, ITALIC)),
      bg(Default, "Red"),
      remove_modifier(fg(Default, "Yellow"), ITALIC),
      fg(reset, "Yellow") }

\* styles written as literals: add_modifier and sub_modifier overlapping,
\* and bits outside all() as from_bits_unchecked admits them
LiteralStyles ==
    { StyleLiteral(Some("Blue"), None, BOLD, BOLD),
      StyleLiteral(None, Some("Reset"), BitOr(BOLD, ITALIC), BitOr(ITALIC, DIM)),
      StyleLiteral(None, None, from_bits_unchecked(BitOr(512, BOLD)), empty),
      StyleLiteral(None, None, empty, from_bits_unchecked(BitOr(32768, ITALIC))) }

StyleSample == TestStyles \cup DocStyles \cup {reset} \cup LiteralStyles

Last(seq) == seq[Len(seq)]

\* one drawing layer applies its style to the cell
SetStyle(s) ==
    /\ Len(chain) < MaxChain
    /\ chain' = Append(chain, s)
    /\ cell' = patch(cell, s)
    /\ UNCHANGED <<style, self, ret>>

Init ==
    /\ chain = <<>>
    /\ cell = Default
    /\ style = Default
    /\ self = empty
    /\ ret = [op |-> "none"]

Next == \E s \in StyleSample : SetStyle(s)

Spec == Init /\ [][Next]_vars

\* the number of styles patched in turn by the test of patch: a, b, c, d
TestChainLen == 4

\* the test patches its next style onto the accumulated one
PatchNext(s) ==
    /\ Len(chain) < TestChainLen
    /\ chain' = Append(chain, s)
    /\ cell' = patch(cell, s)
    /\ UNCHANGED <<style, self, ret>>

NextTest == \E s \in StyleSample : PatchNext(s)

SpecTest == Init /\ [][NextTest]_vars

----------------------------------------------------------------------------
(* A style built from the default style by the two modifier mutators *)

\* the modifiers passed to add_modifier and remove_modifier
ModifierSample ==
    { empty, BOLD, ITALIC, BitOr(BOLD, ITALIC), HIDDEN, CROSSED_OUT, all,
      from_bits_unchecked(512), from_bits_unchecked(BitOr(32768, DIM)) }

AddModifier(m) ==
    /\ style' = add_modifier(style, m)
    /\ UNCHANGED <<chain, cell, self, ret>>

RemoveModifier(m) ==
    /\ style' = remove_modifier(style, m)
    /\ UNCHANGED <<chain, cell, self, ret>>

NextBuilder ==
    \E m \in ModifierSample : AddModifier(m) \/ RemoveModifier(m)

SpecBuilder == Init /\ [][NextBuilder]_vars

----------------------------------------------------------------------------
(* The methods of Modifier called on a raw bit pattern *)

\* the raw values: every pattern up to MaxRaw and some with higher bits
RawSample ==
    (0..MaxRaw) \cup {4096, 32768, 32768 + 5, U16Max - all, U16Max - 1, U16Max}

InitModifier ==
    /\ chain = <<>>
    /\ cell = Default
    /\ style = Default
    /\ self \in RawSample
    /\ ret = [op |-> "none"]

CallFromBits ==
    /\ ret' = [op |-> "from_bits", result |-> from_bits(self)]
    /\ UNCHANGED <<chain, cell, style, self>>

CallFromBitsTruncate ==
    /\ ret' = [op |-> "from_bits_truncate", result |-> from_bits_truncate(self)]
    /\ UNCHANGED <<chain, cell, style, self>>

CallContains(other) ==
    /\ ret' = [op |-> "contains", other |-> other,
               result |-> contains(self, other)]
    /\ UNCHANGED <<chain, cell, style, self>>

CallFmt ==
    /\ ret' = [op |-> "fmt", result |-> fmt(self)]
    /\ UNCHANGED <<chain, cell, style, self>>

NextModifier ==
    \/ CallFromBits
    \/ CallFromBitsTruncate
    \/ \E other \in ModifierSample : CallContains(other)
    \/ CallFmt

SpecModifier == InitModifier /\ [][NextModifier]_vars

----------------------------------------------------------------------------
(* Styles built by every constructor and method of Style *)

\* the colors passed to fg and bg
ColorSample == {"Blue"}

\* the modifiers passed to add_modifier and remove_modifier
StyleModifierSample == {BOLD, all, from_bits_unchecked(512)}

\* let style = Style::default()
CallDefault ==
    /\ style' = Default
    /\ ret' = [op |-> "default"]
    /\ UNCHANGED <<chain, cell, self>>

\* let style = Style::reset()
CallReset ==
    /\ style' = reset
    /\ ret' = [op |-> "reset"]
    /\ UNCHANGED <<chain, cell, self>>

CallFg(color) ==
    /\ style' = fg(style, color)
    /\ ret' = [op |-> "fg"]
    /\ UNCHANGED <<chain, cell, self>>

CallBg(color) ==
    /\ style' = bg(style, color)
    /\ ret' = [op |-> "bg"]
    /\ UNCHANGED <<chain, cell, self>>

CallAddModifier(m) ==
    /\ style' = add_modifier(style, m)
    /\ ret' = [op |-> "add_modifier"]
    /\ UNCHANGED <<chain, cell, self>>

CallRemoveModifier(m) ==
    /\ style' = remove_modifier(style, m)
    /\ ret' = [op |-> "remove_modifier"]
    /\ UNCHANGED <<chain, cell, self>>

\* the style built so far is kept (Style is Copy) to be patched onto a
\* style built later
KeepStyle ==
    /\ cell' = style
    /\ UNCHANGED <<chain, style, self, ret>>

\* style.patch(other), other being the style kept before
CallPatch ==
    /\ style' = patch(style, cell)
    /\ ret' = [op |-> "patch"]
    /\ UNCHANGED <<chain, cell, self>>

NextStyle ==
    \/ CallDefault
    \/ CallReset
    \/ \E color \in ColorSample : CallFg(color) \/ CallBg(color)
    \/ \E m \in StyleModifierSample : CallAddModifier(m) \/ CallRemoveModifier(m)
    \/ KeepStyle
    \/ CallPatch

SpecStyle == Init /\ [][NextStyle]_vars

----------------------------------------------------------------------------
(* Properties of patch over the chain of a cell *)

\* bit f of the raw value m
HasBit(m, f) == (m \div (2^f)) % 2 = 1

BitPositions == 0..(U16Bits - 1)

Max(S) == CHOOSE i \in S : \A j \in S : j <= i

\* C1: applying four styles a, b, c, d one after the other to the default
\* style gives the same style as applying once the combined style
\* a.patch(b.patch(c.patch(d))).
C1_RightFold ==
    Len(chain) = TestChainLen =>
        cell = patch(Default,
                     patch(chain[1], patch(chain[2], patch(chain[3], chain[4]))))

\* four styles have been applied, among them one whose add_modifier and
\* sub_modifier overlap, one that sets a color and one that removes a flag
C1_Witness ==
    /\ Len(chain) = TestChainLen
    /\ chain[1] = add_modifier(Default, BitOr(ITALIC, BOLD))
    /\ chain[2] = StyleLiteral(Some("Blue"), None, BOLD, BOLD)
    /\ chain[3] = fg(Default, "Yellow")
    /\ chain[4] = remove_modifier(Default, ITALIC)

\* C2: the default style is a two-sided identity of patch: patching a style
\* s onto the default style gives s, and patching the default style onto
\* the style of the cell leaves it as it is.
C2_Identity ==
    [][ /\ (chain = <<>> => cell' = Last(chain'))
        /\ (Last(chain') = Default => cell' = cell) ]_vars

\* the default style was patched onto a cell whose style is not the default
C2_Witness ==
    /\ Len(chain) >= 2
    /\ Last(chain) = Default
    /\ cell # Default
    /\ cell.fg # None
    /\ cell.add_modifier # empty

\* C3: a style built from the default style by add_modifier and
\* remove_modifier calls never has a bit set in both add_modifier and
\* sub_modifier.
C3_NoOverlap ==
    \A f \in BitPositions :
        ~(HasBit(style.add_modifier, f) /\ HasBit(style.sub_modifier, f))

\* flags were added and others removed, some of them moved from one set to
\* the other, with all() and a bit outside all() among the arguments
C3_Witness ==
    /\ style.add_modifier = BitOr(ITALIC, 512)
    /\ style.sub_modifier = all - ITALIC

\* the chain of the first example in the documentation of Style
DocChainMerge ==
    << add_modifier(fg(Default, "Blue"), BitOr(BOLD, ITALIC)),
       bg(Default, "Red"),
       remove_modifier(fg(Default, "Yellow"), ITALIC) >>

\* C4 as stated: the chain of the first documentation example, folded
\* through patch, ends with an empty sub_modifier.
C4_Original ==
    chain = DocChainMerge =>
        cell = StyleLiteral(Some("Yellow"), Some("Red"), BOLD, empty)

\* C4 amended: the chain of the first documentation example, folded through
\* patch from the default style, yields fg=Some(Yellow), bg=Some(Red),
\* add_modifier=BOLD and sub_modifier=ITALIC.
C4_DocChainMerge ==
    chain = DocChainMerge =>
        cell = StyleLiteral(Some("Yellow"), Some("Red"), BOLD, ITALIC)

C4_Witness == chain = DocChainMerge

\* the chain of the second example in the documentation of Style
DocChainReset ==
    << add_modifier(fg(Default, "Blue"), BitOr(BOLD, ITALIC)),
       fg(reset, "Yellow") >>

\* C5 as stated: the chain of the second documentation example, folded
\* through patch, ends with an empty sub_modifier.
C5_Original ==
    chain = DocChainReset =>
        cell = StyleLiteral(Some("Yellow"), Some("Reset"), empty, empty)

\* C5 amended: the chain of the second documentation example, folded
\* through patch from the default style, yields fg=Some(Yellow),
\* bg=Some(Reset), an empty add_modifier and sub_modifier=all().
C5_DocChainReset ==
    chain = DocChainReset =>
        cell = StyleLiteral(Some("Yellow"), Some("Reset"), empty, all)

C5_Witness == chain = DocChainReset

\* C6 as stated: whatever the style of the cell was, once reset() is
\* patched onto it the cell has fg=Some(Reset), bg=Some(Reset) and an empty
\* add_modifier.
C6_Original ==
    (Len(chain) >= 1 /\ Last(chain) = reset) =>
        /\ cell.fg = Some("Reset")
        /\ cell.bg = Some("Reset")
        /\ cell.add_modifier = empty

\* C6 amended: patching reset() onto any style s yields fg=Some(Reset),
\* bg=Some(Reset) and an add_modifier made of exactly the bits of
\* s.add_modifier that lie outside all(): no named flag stays on, and
\* add_modifier is empty whenever s.add_modifier has no bit outside all().
C6_ResetAbsorbs ==
    [][ (chain' # chain /\ Last(chain') = reset) =>
            /\ cell'.fg = Some("Reset")
            /\ cell'.bg = Some("Reset")
            /\ cell'.add_modifier = (cell.add_modifier \div (all + 1)) * (all + 1)
      ]_vars

\* reset() was patched onto a cell that had colors and named flags on
C6_Witness ==
    /\ Len(chain) = 2
    /\ chain[1] = add_modifier(fg(Default, "Blue"), BitOr(BOLD, ITALIC))
    /\ chain[2] = reset
    /\ cell.add_modifier = empty

\* the bits of `other` are all set in m
EveryBitSet(m, other) ==
    \A f \in BitPositions : HasBit(other, f) => HasBit(m, f)

\* C7: contains(self, other) is true exactly when other is not empty and
\* every bit of other is set in self; contains(a, empty) is false for every
\* a, the empty modifier included.
C7_Contains ==
    ret.op = "contains" =>
        /\ ret.result <=> (ret.other # 0 /\ EveryBitSet(self, ret.other))
        /\ (ret.other = 0 => ~ret.result)

\* contains(empty) was called on the empty modifier and answered false
C7_Witness ==
    /\ ret.op = "contains"
    /\ self = 0
    /\ ret.other = 0
    /\ ret.result = FALSE

\* the raw value has a bit outside the nine named flags
HasUnknownBit(raw) ==
    \E f \in BitPositions : f >= Len(Flags) /\ HasBit(raw, f)

\* C8: from_bits(raw) is None exactly when raw has a bit outside all(), and
\* otherwise Some of the modifier whose bits are raw;
\* from_bits_truncate(raw) is the modifier that from_bits(raw & all())
\* returns.
C8_FromBits ==
    /\ ret.op = "from_bits" =>
          /\ ret.result = NoModifier <=> HasUnknownBit(self)
          /\ ~HasUnknownBit(self) => ret.result = SomeModifier(self)
    /\ ret.op = "from_bits_truncate" =>
          /\ ~HasUnknownBit(ret.result)
          /\ SomeModifier(ret.result) = from_bits(self % (all + 1))

\* from_bits_truncate was called on a raw value with known and unknown bits
C8_Witness ==
    /\ ret.op = "from_bits_truncate"
    /\ self = 32768 + 5
    /\ ret.result = 5

RECURSIVE NamesFrom(_, _, _)
\* the names of the flags set in m, from the i-th flag on, in declaration
\* order, joined by " | "; sep is "" until a name has been written
NamesFrom(m, i, sep) ==
    IF i > Len(Flags) THEN ""
    ELSE IF HasBit(m, i - 1)
         THEN sep \o FlagNames[i] \o NamesFrom(m, i + 1, " | ")
         ELSE NamesFrom(m, i + 1, sep)

\* the rendering C9 describes
Rendering(m) ==
    LET named == m % (all + 1)
        residue == m - named
    IN  IF m = 0 THEN "(empty)"
        ELSE NamesFrom(m, 1, "")
             \o (IF named # 0 /\ residue # 0 THEN " | " ELSE "")
             \o (IF residue # 0 THEN "0x" \o LowerHex(residue) ELSE "")

\* C9: the Debug rendering of a modifier lists the names of the flags set
\* in it, in declaration order, separated by " | ", then the bits outside
\* the named set as one hexadecimal residue "0x..", and is "(empty)"
\* exactly when no bit is set.
C9_DebugRendering ==
    ret.op = "fmt" =>
        /\ ret.result = Rendering(self)
        /\ ret.result = "(empty)" <=> self = 0

Disjoint(s) ==
    \A f \in BitPositions :
        ~(HasBit(s.add_modifier, f) /\ HasBit(s.sub_modifier, f))

\* the positions of the chain whose style sets the foreground, the
\* background, or mentions flag f
FgSetters == {i \in 1..Len(chain) : chain[i].fg # None}
BgSetters == {i \in 1..Len(chain) : chain[i].bg # None}
Mentioning(f) ==
    {i \in 1..Len(chain) :
        HasBit(chain[i].add_modifier, f) \/ HasBit(chain[i].sub_modifier, f)}

\* C10: when every style of the chain has disjoint add_modifier and
\* sub_modifier, the style of the cell has the fg (bg) of the last style of
\* the chain that sets it, None if none does, and each flag is in its
\* add_modifier (sub_modifier) exactly when the last style mentioning the
\* flag has it in add_modifier (sub_modifier); a flag no style mentions is
\* in neither.
C10_LastWriterWins ==
    (\A i \in 1..Len(chain) : Disjoint(chain[i])) =>
        /\ cell.fg = IF FgSetters = {} THEN None ELSE chain[Max(FgSetters)].fg
        /\ cell.bg = IF BgSetters = {} THEN None ELSE chain[Max(BgSetters)].bg
        /\ \A f \in BitPositions :
              LET M == Mentioning(f)
                  last == IF M = {} THEN Default ELSE chain[Max(M)]
              IN  /\ HasBit(cell.add_modifier, f) <=>
                        (M # {} /\ HasBit(last.add_modifier, f))
                  /\ HasBit(cell.sub_modifier, f) <=>
                        (M # {} /\ HasBit(last.sub_modifier, f))

\* a flag was removed, added again by a later style while another flag was
\* added and then removed, and a color was set twice
C10_Witness ==
    /\ Len(chain) = 3
    /\ \A i \in 1..Len(chain) : Disjoint(chain[i])
    /\ chain[1] = remove_modifier(Default, BOLD)
    /\ chain[2] = add_modifier(fg(Default, "Blue"), BitOr(BOLD, ITALIC))
    /\ chain[3] = remove_modifier(fg(Default, "Yellow"), ITALIC)
    /\ cell.add_modifier = BOLD
    /\ cell.sub_modifier = ITALIC

\* C11: every style reachable from default() or reset() by fg, bg,
\* add_modifier, remove_modifier and patch with such a reachable style as
\* argument has no bit set in both add_modifier and sub_modifier.
C11_NoOverlapClosed ==
    /\ BitAnd(style.add_modifier, style.sub_modifier) = empty
    /\ BitAnd(cell.add_modifier, cell.sub_modifier) = empty

\* a style holding a bit outside all() in add_modifier was patched with a
\* style built from reset() that sets a color and adds BOLD
C11_Witness ==
    /\ ret.op = "patch"
    /\ cell = fg(add_modifier(reset, BOLD), "Blue")
    /\ style.fg = Some("Blue")
    /\ style.bg = Some("Reset")
    /\ style.add_modifier = BitOr(BOLD, 512)
    /\ style.sub_modifier = all - BOLD

====
